---------------------------- MODULE Spec2Model ----------------------------
(***************************************************************************)
(* A state-machine model of tools/invert_3d_lut.py: the command (main),    *)
(* the .cube parser, and the grid inverter with its per-node solve         *)
(* (estimate, Newton refinement, error check, optimizer fallback, store).  *)
(*                                                                         *)
(* Numbers.  The program computes in IEEE doubles; the model computes in   *)
(* fixed point: a real v is the integer v * ONE, and a result that falls   *)
(* between two lattice points is rounded to the nearest one.  The          *)
(* thresholds 1e-4 and 0.01 are lattice points.  tol = 1e-10, eps = 1e-7   *)
(* and the damping 1e-8 lie below the lattice resolution and are modelled  *)
(* by what they do to lattice values (see BelowTol, EpsUp/EpsDown, delta). *)
(*                                                                         *)
(* Forward grids.  The grids of the model are built the way the            *)
(* repository's tests build theirs (test_gamma_lut, test_identity): one    *)
(* curve applied to each channel, value(r,g,b) = (f(r), f(g), f(b)).  For  *)
(* such a grid the Jacobian is diagonal and the sample outputs form a      *)
(* rectilinear point set; the models of numpy.linalg.solve and of scipy's  *)
(* LinearNDInterpolator below are stated for that case.                    *)
(***************************************************************************)
EXTENDS Integers, Sequences, FiniteSets, TLC

----------------------------------------------------------------------------
(* Bounds of the model *)

\* the forward curves used are the first MaxCurves entries of CurveList
MaxCurves == 6
\* the largest output size M the runs ask for with --size
MaxOut == 3
\* the latest pass of a Newton loop in which np.linalg.solve is made to raise
MaxFaultPass == 2
\* the largest side N of the grids that are written to a file and parsed back
MaxSide == 3
\* the number of such grids of each side
MaxSeeds == 40
\* the largest side N of the identity grids that are inverted at their own size
MaxIdentitySide == 4

\* how far from the ends of [0,1], in multiples of eps, every coordinate is
\* tried in the finite-difference denominator
EdgeBand == 3

----------------------------------------------------------------------------
(* Program constants, in lattice units *)

\* the float 1.0: upper end of the domain [0,1] (np.clip(rgb, 0, 1))
ONE == 10000
\* `if error > 1e-4`: 1e-4 * ONE
FallbackThreshold == 1
\* `if error > 0.01`: 0.01 * ONE
HighErrorThreshold == 100
\* solve_inverse_newton(..., max_iter=30, ...)
max_iter == 30
\* `for _ in range(10)`: the line search's step sizes 1, 1/2, ..., 1/2^9
LineSearchTries == 10
\* `x + 0.1 * delta`: the fixed step is delta / 10
FixedStepDen == 10

Channels == 1 .. 3

Min(a, b) == IF a <= b THEN a ELSE b
Max(a, b) == IF a >= b THEN a ELSE b
Abs(a) == IF a < 0 THEN -a ELSE a

\* a / b rounded to the nearest integer (b > 0), halves up
RoundDiv(a, b) == (2 * a + b) \div (2 * b)

\* a / b rounded to the nearest integer (b > 0), halves toward zero
RoundToZero(a, b) ==
    IF a >= 0 THEN (2 * a + b - 1) \div (2 * b)
              ELSE -((2 * (-a) + b - 1) \div (2 * b))

RECURSIVE Pow2(_)
Pow2(k) == IF k = 0 THEN 1 ELSE 2 * Pow2(k - 1)

\* vectors are built as tuples, component by component
Vec(F(_)) == <<F(1), F(2), F(3)>>

VecSub(a, b) == <<a[1] - b[1], a[2] - b[2], a[3] - b[3]>>
MaxAbs(v) == Max(Abs(v[1]), Max(Abs(v[2]), Abs(v[3])))

\* np.clip(v, 0, 1) on one component and on a vector
Clip(v) == Max(0, Min(ONE, v))
ClipVec(x) == <<Clip(x[1]), Clip(x[2]), Clip(x[3])>>

\* the nodes of a cubic grid of side n, as (r, g, b) index triples
Nodes(n) == (0 .. n - 1) \X (0 .. n - 1) \X (0 .. n - 1)

\* np.linspace(0, 1, size)[k]
Axis(size, k) == RoundDiv(k * ONE, size - 1)


----------------------------------------------------------------------------
(* Forward evaluator: create_lut_interpolator / apply_lut *)

\* the cell of np.linspace(0, 1, size) that holds the coordinate v: the
\* last i <= size - 2 with Axis(size, i) <= v
CellNear(size, v, i) ==
    IF i > 0 /\ Axis(size, i) > v THEN i - 1
    ELSE IF i < size - 2 /\ Axis(size, i + 1) <= v THEN i + 1
    ELSE i

CellOf(size, v) == CellNear(size, v, Min((v * (size - 1)) \div ONE, size - 2))

\* linear interpolation between a and b at offset t of a cell of width w
Interp1(a, b, t, w) == a + RoundDiv((b - a) * t, w)

\* linear interpolation of channel k in the cell with lowest corner i0, at
\* the offsets t in a cell of widths w: along axis 0, then 1, then 2
Trilinear(lut_data, i0, t, w, k) ==
    LET V(a, b, d) == lut_data[<<i0[1] + a, i0[2] + b, i0[3] + d>>][k]
        Along0(b, d) == Interp1(V(0, b, d), V(1, b, d), t[1], w[1])
        Along1(d) == Interp1(Along0(0, d), Along0(1, d), t[2], w[2])
    IN  Interp1(Along1(0), Along1(1), t[3], w[3])

\* the interpolators of the three channels at a point x of [0,1]^3 whose
\* cell is i0
InterpolateIn(lut_data, size, x, i0) ==
    LET lo(c) == Axis(size, i0[c])
        t == <<x[1] - lo(1), x[2] - lo(2), x[3] - lo(3)>>
        w == <<Axis(size, i0[1] + 1) - lo(1), Axis(size, i0[2] + 1) - lo(2),
               Axis(size, i0[3] + 1) - lo(3)>>
    IN  <<Trilinear(lut_data, i0, t, w, 1), Trilinear(lut_data, i0, t, w, 2),
          Trilinear(lut_data, i0, t, w, 3)>>

Interpolate(lut_data, size, x) ==
    InterpolateIn(lut_data, size, x,
                  <<CellOf(size, x[1]), CellOf(size, x[2]), CellOf(size, x[3])>>)

\* apply_lut(rgb): RegularGridInterpolator(method='linear') per channel, on
\* the clipped point
apply_lut(lut_data, size, rgb) == Interpolate(lut_data, size, ClipVec(rgb))

\* np.max(np.abs(apply_lut(x) - target))
ErrorAt(lut_data, size, x, target) ==
    MaxAbs(VecSub(apply_lut(lut_data, size, x), target))

----------------------------------------------------------------------------
(* Inverse estimator: build_inverse_estimator / estimate *)

\* the (input, output) sample pairs, in the order of the r, g, b loops
SamplePairs(lut_data, size) ==
    [n \in 1 .. size * size * size |->
        LET r == (n - 1) \div (size * size)
            g == ((n - 1) \div size) % size
            b == (n - 1) % size
        IN  [inp |-> <<Axis(size, r), Axis(size, g), Axis(size, b)>>,
             out |-> lut_data[<<r, g, b>>]]]

\* LinearNDInterpolator can be built (Qhull succeeds) when the sample outputs
\* span three dimensions; for the rectilinear output sets of the model that
\* is: no channel is constant over the samples
CanTriangulate(pairs) ==
    \A c \in Channels :
        \E m, n \in DOMAIN pairs : pairs[m].out[c] # pairs[n].out[c]

\* the target lies in the convex hull of the sample outputs (a box, for a
\* rectilinear output set); outside it the interpolant is NaN
InHull(pairs, target) ==
    \A c \in Channels :
        /\ \E n \in DOMAIN pairs : pairs[n].out[c] <= target[c]
        /\ \E n \in DOMAIN pairs : pairs[n].out[c] >= target[c]

\* the channel-c outputs of the samples, the largest of a set of values that
\* is <= v, the smallest that is >= v, and the first sample with a given
\* channel-c output
ChannelOuts(pairs, c) == {pairs[n].out[c] : n \in DOMAIN pairs}
LargestAtMost(outs, v) ==
    CHOOSE m \in outs : m <= v /\ \A k \in outs : k <= v => k <= m
SmallestAtLeast(outs, v) ==
    CHOOSE m \in outs : m >= v /\ \A k \in outs : k >= v => k >= m
FirstWithOut(pairs, c, out) == CHOOSE n \in DOMAIN pairs : pairs[n].out[c] = out

\* the sample with the largest channel-c output <= v, and the one with the
\* smallest channel-c output >= v
KnotBelow(pairs, c, v) ==
    FirstWithOut(pairs, c, LargestAtMost(ChannelOuts(pairs, c), v))

KnotAbove(pairs, c, v) ==
    FirstWithOut(pairs, c, SmallestAtLeast(ChannelOuts(pairs, c), v))

\* the input channel c between two samples, linear in the output channel c
BetweenKnots(c, v, below, above) ==
    IF above.out[c] = below.out[c] THEN below.inp[c]
    ELSE below.inp[c]
            + RoundDiv((v - below.out[c]) * (above.inp[c] - below.inp[c]),
                       above.out[c] - below.out[c])

\* barycentric interpolation over the Delaunay cells of a rectilinear output
\* set: channel c of the input is piecewise linear in channel c of the output
LinearEstimate(pairs, target) ==
    LET Channel(c) ==
            BetweenKnots(c, target[c], pairs[KnotBelow(pairs, c, target[c])],
                         pairs[KnotAbove(pairs, c, target[c])])
    IN  Vec(Channel)

DistSq(a, b) ==
    (a[1] - b[1]) * (a[1] - b[1]) + (a[2] - b[2]) * (a[2] - b[2])
        + (a[3] - b[3]) * (a[3] - b[3])

\* the squared distances of the sample outputs to the target, the smallest
\* of them, and the first sample at a given squared distance
Distances(pairs, target) == {DistSq(pairs[n].out, target) : n \in DOMAIN pairs}
Smallest(values) == CHOOSE m \in values : \A k \in values : m <= k
FirstAtDistance(pairs, target, d) ==
    CHOOSE n \in DOMAIN pairs : DistSq(pairs[n].out, target) = d

\* NearestNDInterpolator: the input of the sample whose output is nearest to
\* the target (of samples equally near, the first in sample order)
NearestEstimate(pairs, target) ==
    pairs[FirstAtDistance(pairs, target, Smallest(Distances(pairs, target)))].inp

\* estimate(target), with interp_ok standing for `interp_r is not None`
estimate(pairs, interp_ok, target) ==
    LET result == IF interp_ok /\ InHull(pairs, target)
                  THEN LinearEstimate(pairs, target)
                  ELSE NearestEstimate(pairs, target)
    IN  ClipVec(result)

----------------------------------------------------------------------------
(* Point refiner: solve_inverse_newton *)

\* `error < tol`, tol = 1e-10: errors are multiples of 1/ONE, and the only
\* one below 1e-10 is 0
tol == 1
BelowTol(error) == error < tol

\* min(1.0, x[i] + eps) - x[i] and x[i] - max(0.0, x[i] - eps), in units of
\* eps = 1e-7, for a lattice coordinate v (the lattice is coarser than eps)
EpsUp(v) == IF v < ONE THEN 1 ELSE 0
EpsDown(v) == IF v > 0 THEN 1 ELSE 0

\* eps = 1e-7 and the domain bound 1.0 in units of 1e-8, and the code's
\* x_plus[i], x_minus[i] and dx for a coordinate v in those units
eps == 10
UnitFine == 10 * 1000 * ONE
x_plus(v) == Min(UnitFine, v + eps)
x_minus(v) == Max(0, v - eps)
dx(v) == x_plus(v) - x_minus(v)

\* apply_lut across one cell of axis i through x: the forward map is affine
\* along an axis inside a cell, so this difference over the cell's width is
\* its slope there
SideDiff(lut_data, size, x, i, cell) ==
    VecSub(apply_lut(lut_data, size, [x EXCEPT ![i] = Axis(size, cell + 1)]),
           apply_lut(lut_data, size, [x EXCEPT ![i] = Axis(size, cell)]))

\* (apply_lut(x_plus) - apply_lut(x_minus)) / dx: x_plus lies `up` eps into
\* the cell above x[i], x_minus `down` eps into the cell below, and dUp,
\* dDown are the differences of apply_lut across those cells of width h
DiffQuotient(up, down, h, dUp, dDown) ==
    [num |-> <<up * dUp[1] + down * dDown[1], up * dUp[2] + down * dDown[2],
               up * dUp[3] + down * dDown[3]>>,
     den |-> (up + down) * h]

\* the cell just below the coordinate v, whose cell is cellUp
CellBelow(size, v, cellUp) ==
    IF v = Axis(size, cellUp) THEN cellUp - 1 ELSE cellUp

\* column i of J, as the numerators num[c] over the common denominator den;
\* the column stays zero when dx = 0
JacobianCol(lut_data, size, x, i) ==
    IF EpsUp(x[i]) + EpsDown(x[i]) > 0
    THEN DiffQuotient(
            EpsUp(x[i]), EpsDown(x[i]), Axis(size, 1) - Axis(size, 0),
            IF EpsUp(x[i]) = 1
            THEN SideDiff(lut_data, size, x, i, CellOf(size, x[i]))
            ELSE <<0, 0, 0>>,
            IF EpsDown(x[i]) = 1
            THEN SideDiff(lut_data, size, x, i,
                          CellBelow(size, x[i], CellOf(size, x[i])))
            ELSE <<0, 0, 0>>)
    ELSE [num |-> <<0, 0, 0>>, den |-> 1]

Jacobian(lut_data, size, x) ==
    <<JacobianCol(lut_data, size, x, 1), JacobianCol(lut_data, size, x, 2),
      JacobianCol(lut_data, size, x, 3)>>

\* the Jacobian of a channel-separable grid: zero off the diagonal
IsDiagonal(J) ==
    \A i \in Channels : \A c \in Channels : c # i => J[i].num[c] = 0

\* np.linalg.solve(J.T @ J + 1e-8 * I, -J.T @ residual) for a diagonal J:
\* delta[i] = -J_ii * r_i / (J_ii^2 + 1e-8), as the fraction num / den of
\* lattice units.  The damping makes a zero pivot give delta[i] = 0 and
\* otherwise shortens the step by less than the lattice resolution.
SolveDelta(J, residual) ==
    LET Component(i) ==
            IF J[i].num[i] = 0 THEN [num |-> 0, den |-> 1]
            ELSE IF J[i].num[i] > 0
                 THEN [num |-> -(residual[i] * J[i].den), den |-> J[i].num[i]]
                 ELSE [num |-> residual[i] * J[i].den, den |-> -J[i].num[i]]
    IN  Vec(Component)

\* an update that is not clamped to [0,1]
StepFromUnclipped(x, delta, alphaDen) ==
    LET Moved(i) == x[i] + RoundToZero(delta[i].num, delta[i].den * alphaDen)
    IN  Vec(Moved)

\* np.clip(x + alpha * delta, 0, 1) with alpha = 1 / alphaDen; the damped
\* step is a little shorter than num/den, so a half rounds toward x
StepFrom(x, delta, alphaDen) ==
    LET Moved(i) == x[i] + RoundToZero(delta[i].num, delta[i].den * alphaDen)
    IN  ClipVec(Vec(Moved))

\* the backtracking line search from try k on: the first step size 1/2^k
\* that strictly lowers the error, else the fixed step 0.1 * delta
RECURSIVE LineSearch(_, _, _, _, _, _, _)

\* a line search that takes its first candidate whatever its error
TryStepAny(lut_data, size, target, x, delta, error, k, x_new) ==
    [x |-> x_new, how |-> "accepted", tries |-> k + 1]

TryStep(lut_data, size, target, x, delta, error, k, x_new) ==
    IF ErrorAt(lut_data, size, x_new, target) < error
    THEN [x |-> x_new, how |-> "accepted", tries |-> k + 1]
    ELSE LineSearch(lut_data, size, target, x, delta, error, k + 1)

\* a line search that tries no step size and takes the fixed step at once
LineSearchFixedOnly(lut_data, size, target, x, delta, error, k) ==
    [x |-> StepFrom(x, delta, FixedStepDen), how |-> "fixed", tries |-> k]

LineSearch(lut_data, size, target, x, delta, error, k) ==
    IF k >= LineSearchTries
    THEN [x |-> StepFrom(x, delta, FixedStepDen), how |-> "fixed", tries |-> k]
    ELSE TryStep(lut_data, size, target, x, delta, error, k,
                 StepFrom(x, delta, Pow2(k)))

\* the body of `for _ in range(max_iter)` once residual = fx - target is
\* known; solve_raises says whether np.linalg.solve raises in this pass
PassFrom(lut_data, size, target, x, solve_raises, residual) ==
    IF BelowTol(MaxAbs(residual)) THEN [x |-> x, how |-> "converged", tries |-> 0]
    ELSE IF solve_raises THEN [x |-> x, how |-> "raised", tries |-> 0]
    ELSE LineSearch(lut_data, size, target, x,
                    SolveDelta(Jacobian(lut_data, size, x), residual),
                    MaxAbs(residual), 0)

\* one pass of the loop of solve_inverse_newton
NewtonPass(lut_data, size, target, x, solve_raises) ==
    PassFrom(lut_data, size, target, x, solve_raises,
             VecSub(apply_lut(lut_data, size, x), target))

\* the loop of solve_inverse_newton after `passes` passes, and what follows
\* a pass: `break` on convergence or on a caught exception, else the next
\* pass; fault_pass is the pass in which np.linalg.solve raises (0: none)
RECURSIVE NewtonLoop(_, _, _, _, _, _)
NewtonLoopAfter(lut_data, size, target, passes, fault_pass, pass) ==
    IF pass.how \in {"converged", "raised"} THEN pass.x
    ELSE NewtonLoop(lut_data, size, target, pass.x, passes + 1, fault_pass)

NewtonLoop(lut_data, size, target, x, passes, fault_pass) ==
    IF passes >= max_iter THEN x
    ELSE NewtonLoopAfter(lut_data, size, target, passes, fault_pass,
                         NewtonPass(lut_data, size, target, x,
                                    fault_pass = passes + 1))

\* solve_inverse_newton(target, apply_lut, initial_guess): the x it returns
solve_inverse_newton(lut_data, size, target, initial_guess, fault_pass) ==
    NewtonLoop(lut_data, size, target, initial_guess, 0, fault_pass)

----------------------------------------------------------------------------
(* Optimizer fallback: solve_inverse_optimization *)

\* the node coordinate of np.linspace(0, 1, size) nearest to v
NearestAxis(size, v) ==
    Axis(size, CHOOSE i \in 0 .. size - 1 :
                  \A j \in 0 .. size - 1 :
                      Abs(Axis(size, i) - v) <= Abs(Axis(size, j) - v) /\
                      (Abs(Axis(size, i) - v) = Abs(Axis(size, j) - v) => i <= j))

\* result.x of scipy.optimize.minimize(objective, initial_guess, L-BFGS-B).
\* The minimizer is library code; the run fixes what it does (opt_mode):
\*   "stay"  it makes no progress and returns initial_guess;
\*   "kink"  it moves each coordinate to the nearest node plane of the
\*           forward grid, where the piecewise-linear objective has its kinks;
\*   "drift" it returns a point one lattice unit below initial_guess, which
\*           leaves [0,1] where initial_guess lies on the lower bound.
minimize(size, initial_guess, opt_mode) ==
    CASE opt_mode = "stay" -> initial_guess
      [] opt_mode = "kink" ->
            <<NearestAxis(size, initial_guess[1]),
              NearestAxis(size, initial_guess[2]),
              NearestAxis(size, initial_guess[3])>>
      [] OTHER -> <<initial_guess[1] - 1, initial_guess[2] - 1,
                    initial_guess[3] - 1>>

\* the optimizer's point as it is, without the clip
MinimizeUnclipped(size, initial_guess, opt_mode) ==
    minimize(size, initial_guess, opt_mode)

\* np.clip(result.x, 0, 1)
solve_inverse_optimization(size, initial_guess, opt_mode) ==
    ClipVec(minimize(size, initial_guess, opt_mode))

----------------------------------------------------------------------------
(* The body of the node loop of invert_3d_lut, as a function of the node *)

\* `if error2 < error:` the pair (result, error) kept of the two
Selected(result, error, result2, error2) ==
    IF error2 < error THEN [result |-> result2, error |-> error2]
    ELSE [result |-> result, error |-> error]

\* the fallback on a Newton result of error above 1e-4
Fallback(lut_data, size, target, result, error, result2) ==
    Selected(result, error, result2, ErrorAt(lut_data, size, result2, target))

\* `if error > 1e-4:` around the fallback
Checked(lut_data, size, target, result, error, opt_mode) ==
    IF error > FallbackThreshold
    THEN Fallback(lut_data, size, target, result, error,
                  solve_inverse_optimization(size, result, opt_mode))
    ELSE [result |-> result, error |-> error]

\* the check of the Newton result
Refined(lut_data, size, target, result, opt_mode) ==
    Checked(lut_data, size, target, result,
            ErrorAt(lut_data, size, result, target), opt_mode)

\* estimate, refine, check and fall back for one target
SolveTarget(lut_data, size, pairs, interp_ok, target, opt_mode, fault_pass) ==
    Refined(lut_data, size, target,
            solve_inverse_newton(lut_data, size, target,
                                 estimate(pairs, interp_ok, target), fault_pass),
            opt_mode)

\* targets that divide the node index by M instead of M - 1
TargetOfNoMinusOne(M, n) ==
    <<RoundDiv(n[1] * ONE, M), RoundDiv(n[2] * ONE, M), RoundDiv(n[3] * ONE, M)>>

\* the target of node n of an output grid of side M
TargetOf(M, n) == <<Axis(M, n[1]), Axis(M, n[2]), Axis(M, n[3])>>

----------------------------------------------------------------------------
(* Forward grids and input files of the model *)

\* per-channel curves f, given by their values at the nodes of
\* np.linspace(0, 1, size): identity (size 2 and 3), x^2, a curve that is
\* not monotone, a decreasing one, one whose range is [0.25, 0.75], and
\* x^2 at size 5; then a second non-monotone curve, the identity at
\* sizes 4 and 5, and x^2 at size 9 (test_gamma_lut)
CurveList ==
    << <<0, 10000>>,
       <<0, 5000, 10000>>,
       <<0, 2000, 10000>>,
       <<10000, 5000, 7500>>,
       <<10000, 5000, 0>>,
       <<2500, 5000, 7500>>,
       <<0, 625, 2500, 5625, 10000>>,
       <<0, 10000, 5000>>,
       <<0, 3333, 6667, 10000>>,
       <<0, 2500, 5000, 7500, 10000>> >>

Curves == 1 .. Min(MaxCurves, Len(CurveList))

\* lut[r, g, b] = [f(r), f(g), f(b)], as the tests build their grids
CurveLut(curve) ==
    [n \in Nodes(Len(curve)) |->
        <<curve[n[1] + 1], curve[n[2] + 1], curve[n[3] + 1]>>]

IdentityCurve(curve) ==
    \A k \in 1 .. Len(curve) : curve[k] = Axis(Len(curve), k - 1)

\* one line of a .cube file, by what parse_cube_file makes of it:
\*   "skip"    blank, '#' comment, LUT_1D_SIZE or another DOMAIN... keyword
\*   "title"   TITLE, ok = it carries a value
\*   "size"    LUT_3D_SIZE, ok = its value is an integer (val)
\*   "domain"  DOMAIN_MIN / DOMAIN_MAX, ok = its values are floats
\*   "data"    anything else: ok = every token is a float, val = the number
\*             of tokens, rgb = the three values when val = 3
Line(kind, ok, val, rgb) == [kind |-> kind, ok |-> ok, val |-> val, rgb |-> rgb]

\* the texts of numbers are decimals of six places, held as integers in
\* units of 1e-6
MICRO == 1000000

\* f'{v:.6f}': the text of the value v, v in units of 1/one
Format6(v, one) ==
    IF one <= MICRO THEN v * (MICRO \div one) ELSE RoundDiv(v, one \div MICRO)

\* float(text): the value of a text, in units of 1/one
ParseFloat(text, one) ==
    IF one <= MICRO THEN RoundDiv(text, MICRO \div one) ELSE text * (one \div MICRO)

\* f'{rgb[0]:.6f} {rgb[1]:.6f} {rgb[2]:.6f}'
FormatRecord(rgb, one) ==
    Line("data", TRUE, 3,
         <<Format6(rgb[1], one), Format6(rgb[2], one), Format6(rgb[3], one)>>)

\* the record lines write_cube_file emits for a grid whose values are in
\* units of 1/one: `for b: for g: for r:`, so r varies fastest
RecordsOf(lut_data, size, one) ==
    [n \in 1 .. size * size * size |->
        FormatRecord(lut_data[<<(n - 1) % size, ((n - 1) \div size) % size,
                                (n - 1) \div (size * size)>>], one)]

\* write_cube_file(filepath, lut_data): the title, size and domain lines, a
\* blank line and the records
write_cube_file(lut_data, size, one) ==
    <<Line("title", TRUE, 0, <<0, 0, 0>>),
      Line("size", TRUE, size, <<0, 0, 0>>),
      Line("domain", TRUE, 0, <<0, 0, 0>>),
      Line("domain", TRUE, 0, <<0, 0, 0>>),
      Line("skip", TRUE, 0, <<0, 0, 0>>)>> \o RecordsOf(lut_data, size, one)

\* the records of a grid of lattice values in file order
FileRecords(lut_data, size) == RecordsOf(lut_data, size, ONE)

FileKinds ==
    {"good", "nosize", "junk", "twovalues", "short", "wrongsize", "badsize",
     "badtitle", "baddomain"}

\* the text of an input file holding the grid of a curve:
\*   "good"       title, size, domain and size^3 records
\*   "nosize"     the same without the LUT_3D_SIZE line
\*   "junk"       good, plus a data line with a token that is no float
\*   "twovalues"  good, plus a data line of two floats
\*   "short"      good, with the last record missing
\*   "wrongsize"  good, but declaring size + 1
\*   "badsize"    good, but `LUT_3D_SIZE abc`
\*   "badtitle"   good, but a bare `TITLE`
\*   "baddomain"  good, but `DOMAIN_MIN 0 0 x`
FileLines(curve, kind) ==
    LET size == Len(curve)
        recs == FileRecords(CurveLut(curve), size)
        title == Line("title", kind # "badtitle", 0, <<0, 0, 0>>)
        decl == CASE kind = "wrongsize" -> Line("size", TRUE, size + 1, <<0, 0, 0>>)
                  [] kind = "badsize" -> Line("size", FALSE, 0, <<0, 0, 0>>)
                  [] OTHER -> Line("size", TRUE, size, <<0, 0, 0>>)
        dmin == Line("domain", kind # "baddomain", 0, <<0, 0, 0>>)
        dmax == Line("domain", TRUE, 0, <<0, 0, 0>>)
        blank == Line("skip", TRUE, 0, <<0, 0, 0>>)
        head == IF kind = "nosize" THEN <<title, dmin, dmax, blank>>
                ELSE <<title, decl, dmin, dmax, blank>>
        body == CASE kind = "junk" ->
                      <<recs[1], Line("data", FALSE, 3, <<0, 0, 0>>)>>
                          \o SubSeq(recs, 2, Len(recs))
                  [] kind = "twovalues" ->
                      <<recs[1], Line("data", TRUE, 2, <<0, 0, 0>>)>>
                          \o SubSeq(recs, 2, Len(recs))
                  [] kind = "short" -> SubSeq(recs, 1, Len(recs) - 1)
                  [] OTHER -> recs
    IN  head \o body

----------------------------------------------------------------------------
(* parse_cube_file *)

\* round(n ** (1/3))
CubeRootRound(n) ==
    CHOOSE s \in 0 .. n + 1 :
        /\ (2 * s - 1) * (2 * s - 1) * (2 * s - 1) <= 8 * n
        /\ 8 * n < (2 * s + 1) * (2 * s + 1) * (2 * s + 1)

\* [float(x) for x in line.split()] of a record line
ParseRecord(texts, one) ==
    <<ParseFloat(texts[1], one), ParseFloat(texts[2], one), ParseFloat(texts[3], one)>>

\* the `for line in f` loop from line i on; st = [size, data, error, one]
\* with size = -1 for None, error = an exception has left the loop, and
\* 1/one the unit of the values read
RECURSIVE ParseLines(_, _, _)
ParseLines(lines, i, st) ==
    IF i > Len(lines) \/ st.error THEN st
    ELSE LET line == lines[i]
             next ==
                CASE line.kind = "skip" -> st
                  [] line.kind = "title" ->
                        IF line.ok THEN st ELSE [st EXCEPT !.error = TRUE]
                  [] line.kind = "size" ->
                        IF line.ok THEN [st EXCEPT !.size = line.val]
                        ELSE [st EXCEPT !.error = TRUE]
                  [] line.kind = "domain" ->
                        IF line.ok THEN st ELSE [st EXCEPT !.error = TRUE]
                  [] OTHER ->
                        IF line.ok /\ line.val = 3
                        THEN [st EXCEPT
                                 !.data = Append(st.data, ParseRecord(line.rgb, st.one))]
                        ELSE st
         IN  ParseLines(lines, i + 1, next)

\* a reshape that takes the records to be in (R, G, B) order already
ReshapeNoTranspose(data, size) ==
    IF size >= 0 /\ size * size * size = Len(data)
    THEN [ok |-> TRUE, size |-> size,
          lut_data |-> [n \in Nodes(size) |->
              data[n[1] * size * size + n[2] * size + n[3] + 1]]]
    ELSE [ok |-> FALSE, size |-> 0, lut_data |-> <<>>]

\* data.reshape((size, size, size, 3)) and the transpose to (R, G, B, 3);
\* the reshape raises unless the records fill the cube
Reshape(data, size) ==
    IF size >= 0 /\ size * size * size = Len(data)
    THEN [ok |-> TRUE, size |-> size,
          lut_data |-> [n \in Nodes(size) |->
              data[n[3] * size * size + n[2] * size + n[1] + 1]]]
    ELSE [ok |-> FALSE, size |-> 0, lut_data |-> <<>>]

\* what follows the loop: `if size is None:` and the reshape
ParseEnd(st) ==
    IF st.error THEN [ok |-> FALSE, size |-> 0, lut_data |-> <<>>]
    ELSE Reshape(st.data,
                 IF st.size = -1 THEN CubeRootRound(Len(st.data)) ELSE st.size)

\* a parser that returns a 2x2x2 identity grid for whatever it is given
ParseAnything(lines) ==
    [ok |-> TRUE, size |-> 2,
     lut_data |-> [n \in Nodes(2) |-> <<Axis(2, n[1]), Axis(2, n[2]), Axis(2, n[3])>>]]

\* parse_cube_file(filepath) reading values in units of 1/one
parse_cube_text(lines, one) ==
    ParseEnd(ParseLines(lines, 1,
                        [size |-> -1, data |-> <<>>, error |-> FALSE, one |-> one]))

\* parse_cube_file(filepath): ok = it returns, else it raises
parse_cube_file(lines) == parse_cube_text(lines, ONE)

----------------------------------------------------------------------------
(* State *)

VARIABLES
    args,             \* the command line and what it names (see Runs)
    env,              \* what the libraries do in this run (see Runs)
    pc,               \* where the run is
    exit_code,        \* the process's exit status, -1 while it runs
    raised,           \* the exception that ended the run, "none" if none
    reported,         \* the error messages main has printed
    lut_data,         \* the forward grid, <<>> before the parse
    size,             \* its side length
    pairs,            \* the estimator's sample pairs
    interp_ok,        \* the estimator's `interp_r is not None`
    output_size,      \* M
    inverted_lut,     \* the inverse grid
    processed,        \* nodes stored so far
    high_error_count, \* nodes stored with error > 0.01
    node,             \* (r_idx, g_idx, b_idx) of the node being solved
    sr,               \* the solve record of that node
    warned,           \* the count the warning line printed, -1 if not printed
    returned,         \* what invert_3d_lut returned: <<>> before it returns
    output_file,      \* the records written to the output path, <<>> if none
    trip,             \* the round trip of test_gamma_lut's test input
    writes,           \* history: how often each node was stored
    node_error,       \* history: the error each node was stored with
    caught            \* history: exceptions caught inside the Newton loop

vars ==
    <<args, env, pc, exit_code, raised, reported, lut_data, size, pairs,
      interp_ok, output_size, inverted_lut, processed, high_error_count, node,
      sr, warned, returned, output_file, trip, writes, node_error, caught>>

mainVars == <<exit_code, raised, reported>>
gridVars == <<lut_data, size>>
estVars == <<pairs, interp_ok>>
jobVars == <<output_size, inverted_lut, processed, high_error_count, node,
             writes, node_error>>
outVars == <<warned, returned, output_file, trip>>

NoNode == <<-1, -1, -1>>
NoFault == [node |-> NoNode, pass |-> 0]

\* the solve record before a node's solve starts
NoRecord ==
    [target |-> <<0, 0, 0>>, initial |-> <<0, 0, 0>>, x |-> <<0, 0, 0>>,
     passes |-> 0, result |-> <<0, 0, 0>>, error |-> 0,
     newton_x |-> <<0, 0, 0>>, newton_error |-> 0,
     fallback |-> FALSE, result2 |-> <<0, 0, 0>>, error2 |-> 0,
     min_error |-> 0, prev_error |-> 0, last_how |-> "none", fixed_steps |-> 0,
     solve_raised |-> FALSE]

\* the round trip record where no test input is tried
NoTrip ==
    [inp |-> <<0, 0, 0>>, after_gamma |-> <<0, 0, 0>>, after_inv |-> <<0, 0, 0>>,
     error |-> -1]

----------------------------------------------------------------------------
(* The runs of the model *)

OptModes == {"stay", "kink", "drift"}

\* np.linalg.solve raises in pass `pass` of the Newton loop of node `node`
FaultNodes == {<<0, 0, 0>>, <<0, 1, 0>>}
Faults == {[node |-> n, pass |-> p] : n \in FaultNodes, p \in 1 .. MaxFaultPass}

\* the orders in which the node loop may be run: the code's (r outermost, b
\* fastest), b outermost, and the code's backwards
Orders == {"rgb", "bgr", "reversed"}

\* --size: 0 stands for an absent option (`args.size if args.size else size`
\* treats 0 as absent too)
SizeOptions == {0} \cup (2 .. MaxOut)

Arguments(test, has_input, has_output, exists, curve, kind, size_opt, verify, quiet) ==
    [test |-> test, has_input |-> has_input, has_output |-> has_output,
     exists |-> exists, curve |-> curve, kind |-> kind, size |-> size_opt,
     verify |-> verify, quiet |-> quiet]

Environment(opt_mode, fault, order, qhull_ok) ==
    [opt_mode |-> opt_mode, fault |-> fault, order |-> order, qhull_ok |-> qhull_ok]

\* a conversion of the well-formed file of curve c
Convert(c, size_opt, verify, quiet, opt_mode, fault, order) ==
    [args |-> Arguments(FALSE, TRUE, TRUE, TRUE, c, "good", size_opt, verify, quiet),
     env |-> Environment(opt_mode, fault, order, TRUE)]

\* the same when Qhull fails and the estimator is left with the nearest sample
ConvertNearest(c, size_opt) ==
    [args |-> Arguments(FALSE, TRUE, TRUE, TRUE, c, "good", size_opt, FALSE, FALSE),
     env |-> Environment("stay", NoFault, "rgb", FALSE)]

\* the curves with nodes that take all max_iter passes: a target outside the
\* curve's range, two inputs for one output, or (x^2 at size 5) an inverse
\* off the lattice
HardCurves == {c \in Curves : c \in {4, 6, 7, 8}}

\* conversions: every curve at every size (the hard curves at size 2), and
\* on the first hard curves the flags, the optimizer modes and the faults
GoodRuns ==
    {Convert(c, m, FALSE, FALSE, "stay", NoFault, "rgb") :
        c \in Curves \ HardCurves, m \in SizeOptions}
    \cup {Convert(c, 2, FALSE, q, o, NoFault, "rgb") :
        c \in HardCurves, q \in BOOLEAN, o \in OptModes}
    \cup {Convert(4, 2, FALSE, FALSE, "stay", f, "rgb") : f \in Faults}
    \cup {Convert(1, 0, v, q, "stay", NoFault, "rgb") : v \in BOOLEAN, q \in BOOLEAN}
    \cup {ConvertNearest(c, m) : c \in Curves \ HardCurves, m \in 3 .. MaxOut}

\* the other invocations: --test, missing arguments, a missing file, the
\* other file kinds, and --size 1
OtherRuns ==
    {[args |-> Arguments(t, i, o, e, 1, k, m, FALSE, FALSE),
      env |-> Environment("stay", NoFault, "rgb", TRUE)] :
        t \in BOOLEAN, i \in BOOLEAN, o \in BOOLEAN, e \in BOOLEAN,
        k \in FileKinds, m \in {0, 1}}

Runs == GoodRuns \cup OtherRuns

\* the runs of the same conversion in each order
OrderRuns ==
    {Convert(c, 2, FALSE, FALSE, o, f, ord) :
        c \in Curves \cap {1, 4}, o \in {"kink"},
        f \in {NoFault, [node |-> <<0, 1, 0>>, pass |-> 1]}, ord \in Orders}

\* the identity grids, each inverted at its own size, with the estimator
\* built on the triangulation and without it
IdentityRuns ==
    {[args |-> Arguments(FALSE, TRUE, TRUE, TRUE, c, "good", 0, FALSE, FALSE),
      env |-> Environment("stay", NoFault, "rgb", q)] :
        c \in {k \in 1 .. Len(CurveList) :
                  /\ IdentityCurve(CurveList[k])
                  /\ Len(CurveList[k]) <= MaxIdentitySide},
        q \in BOOLEAN}

InitWith(runs) ==
    /\ \E run \in runs : args = run.args /\ env = run.env
    /\ pc = "main"
    /\ exit_code = -1
    /\ raised = "none"
    /\ reported = {}
    /\ lut_data = <<>>
    /\ size = 0
    /\ pairs = <<>>
    /\ interp_ok = FALSE
    /\ output_size = 0
    /\ inverted_lut = <<>>
    /\ processed = 0
    /\ high_error_count = 0
    /\ node = NoNode
    /\ sr = NoRecord
    /\ warned = -1
    /\ returned = <<>>
    /\ output_file = <<>>
    /\ trip = NoTrip
    /\ writes = <<>>
    /\ node_error = <<>>
    /\ caught = 0

Init == InitWith(Runs)

----------------------------------------------------------------------------
(* main *)

\* sys.exit(1) after printing `message`
ExitWith(message) ==
    /\ pc' = "exit"
    /\ exit_code' = 1
    /\ reported' = reported \cup {message}
    /\ raised' = raised

\* an exception nobody catches: the interpreter prints it and exits with 1
Crash(exception) ==
    /\ pc' = "exit"
    /\ exit_code' = 1
    /\ raised' = exception
    /\ reported' = reported

\* `if args.test:` the self-tests run and main returns
MainTest ==
    /\ pc = "main"
    /\ args.test
    /\ pc' = "exit"
    /\ exit_code' = 0
    /\ UNCHANGED <<args, env, raised, reported, gridVars, estVars, jobVars, sr,
                   outVars, caught>>

\* `if not args.input or not args.output:`
MainUsage ==
    /\ pc = "main"
    /\ ~args.test
    /\ ~args.has_input \/ ~args.has_output
    /\ ExitWith("usage")
    /\ UNCHANGED <<args, env, gridVars, estVars, jobVars, sr, outVars, caught>>

\* `if not input_path.exists():`
MainMissingFile ==
    /\ pc = "main"
    /\ ~args.test
    /\ args.has_input /\ args.has_output
    /\ ~args.exists
    /\ ExitWith("missing")
    /\ UNCHANGED <<args, env, gridVars, estVars, jobVars, sr, outVars, caught>>

\* the try block around parse_cube_file(args.input), given what the call did
AfterParse(parsed) ==
    IF parsed.ok
    THEN /\ lut_data' = parsed.lut_data
         /\ size' = parsed.size
         /\ pc' = "invert"
         /\ UNCHANGED mainVars
    ELSE /\ ExitWith("unparsable")
         /\ UNCHANGED gridVars

MainParse ==
    /\ pc = "main"
    /\ ~args.test
    /\ args.has_input /\ args.has_output
    /\ args.exists
    /\ AfterParse(parse_cube_file(FileLines(CurveList[args.curve], args.kind)))
    /\ UNCHANGED <<args, env, estVars, jobVars, sr, outVars, caught>>

\* write_cube_file(args.output, inverted_lut, ...): the records in file order
MainWrite ==
    /\ pc = "write"
    /\ output_file' = write_cube_file(returned, output_size, ONE)
    /\ pc' = IF args.verify THEN "verify" ELSE "done"
    /\ UNCHANGED <<args, env, mainVars, gridVars, estVars, jobVars, sr, warned,
                   returned, trip, caught>>

\* `if args.verify:` verify_inversion samples the round trip and prints
MainVerify ==
    /\ pc = "verify"
    /\ pc' = "done"
    /\ UNCHANGED <<args, env, mainVars, gridVars, estVars, jobVars, sr, outVars,
                   caught>>

\* main returns
MainReturn ==
    /\ pc = "done"
    /\ pc' = "exit"
    /\ exit_code' = 0
    /\ UNCHANGED <<args, env, raised, reported, gridVars, estVars, jobVars, sr,
                   outVars, caught>>

----------------------------------------------------------------------------
(* invert_3d_lut *)

\* a loop nest that has lost its middle loop
NextNodeNoGreen(n, M) ==
    IF n[3] < M - 1 THEN <<n[1], n[2], n[3] + 1>>
    ELSE IF n[1] < M - 1 THEN <<n[1] + 1, 0, 0>>
    ELSE NoNode

\* the node after n in `for r_idx: for g_idx: for b_idx:`, NoNode after the last
NextNode(n, M) ==
    IF n[3] < M - 1 THEN <<n[1], n[2], n[3] + 1>>
    ELSE IF n[2] < M - 1 THEN <<n[1], n[2] + 1, 0>>
    ELSE IF n[1] < M - 1 THEN <<n[1] + 1, 0, 0>>
    ELSE NoNode

\* the function up to the node loop: sizes, interpolator, estimator, the
\* zero-filled inverse grid and the counters; the loop starts at `first`
StartJob(first) ==
    /\ pc = "invert"
    /\ output_size' = IF args.size # 0 THEN args.size ELSE size
    /\ pairs' = SamplePairs(lut_data, size)
    /\ interp_ok' = (env.qhull_ok /\ CanTriangulate(pairs'))
    /\ inverted_lut' = [n \in Nodes(output_size') |-> <<0, 0, 0>>]
    /\ writes' = [n \in Nodes(output_size') |-> 0]
    /\ node_error' = [n \in Nodes(output_size') |-> -1]
    /\ processed' = 0
    /\ high_error_count' = 0
    /\ node' = first
    /\ pc' = "estimate"
    /\ UNCHANGED <<args, env, mainVars, gridVars, sr, outVars, caught>>

InvertBegin == StartJob(<<0, 0, 0>>)

\* the k-th node (from 0) of a loop over the M^3 nodes in the given order
NodeAt(order, k, M) ==
    CASE order = "rgb" -> <<k \div (M * M), (k \div M) % M, k % M>>
      [] order = "bgr" -> <<k % M, (k \div M) % M, k \div (M * M)>>
      [] OTHER -> <<(M * M * M - 1 - k) \div (M * M),
                    ((M * M * M - 1 - k) \div M) % M, (M * M * M - 1 - k) % M>>

\* the same function with its node loop run in the order env.order
InvertBeginIn ==
    StartJob(NodeAt(env.order, 0, IF args.size # 0 THEN args.size ELSE size))

\* a solve that starts from the result of the node solved before it
BeginSolveWarm(target, initial) ==
    sr' = [NoRecord EXCEPT
              !.target = target, !.initial = initial,
              !.x = IF processed > 0 THEN sr.result ELSE initial,
              !.min_error = ErrorAt(lut_data, size, initial, target),
              !.prev_error = ErrorAt(lut_data, size, initial, target)]

\* the solve record once target and initial = estimate_inverse(target) are set
BeginSolve(target, initial) ==
    sr' = [NoRecord EXCEPT
              !.target = target, !.initial = initial, !.x = initial,
              !.min_error = ErrorAt(lut_data, size, initial, target),
              !.prev_error = ErrorAt(lut_data, size, initial, target)]

\* target = (r_idx, g_idx, b_idx) / (output_size - 1), which divides by zero
\* when output_size is 1, and initial = estimate_inverse(target)
NodeTarget == TargetOf(output_size, node)

NodeEstimate ==
    /\ pc = "estimate"
    /\ IF output_size = 1
       THEN /\ Crash("ZeroDivisionError")
            /\ UNCHANGED sr
       ELSE /\ BeginSolve(NodeTarget, estimate(pairs, interp_ok, NodeTarget))
            /\ pc' = "newton"
            /\ UNCHANGED mainVars
    /\ UNCHANGED <<args, env, gridVars, estVars, jobVars, outVars, caught>>

\* whether np.linalg.solve raises in the pass that is about to run
FaultNow == env.fault.node = node /\ env.fault.pass = sr.passes + 1

\* the loop is left by `break` (converged, or an exception caught by
\* `except:`) or after max_iter passes
LoopLeft(pass) ==
    \/ pass.how \in {"converged", "raised"}
    \/ sr.passes + 1 >= max_iter

\* a loop whose np.linalg.solve is not inside a try block
AfterPassUncaught(pass) ==
    IF pass.how = "raised"
    THEN /\ Crash("LinAlgError")
         /\ UNCHANGED <<sr, caught>>
    ELSE /\ sr' = [sr EXCEPT
                      !.x = pass.x,
                      !.passes = IF pass.how = "converged" THEN @ ELSE @ + 1,
                      !.last_how = pass.how,
                      !.min_error = Min(@, ErrorAt(lut_data, size, pass.x, sr.target)),
                      !.prev_error = ErrorAt(lut_data, size, sr.x, sr.target),
                      !.fixed_steps = IF pass.how = "fixed" THEN @ + 1 ELSE @]
         /\ caught' = caught
         /\ pc' = IF LoopLeft(pass) THEN "check" ELSE "newton"
         /\ UNCHANGED mainVars

\* the state after a pass of solve_inverse_newton's loop
AfterPass(pass) ==
    /\ sr' = [sr EXCEPT
                 !.x = pass.x,
                 !.passes = IF pass.how \in {"converged", "raised"} THEN @ ELSE @ + 1,
                 !.last_how = pass.how,
                 !.min_error = Min(@, ErrorAt(lut_data, size, pass.x, sr.target)),
                 !.prev_error = ErrorAt(lut_data, size, sr.x, sr.target),
                 !.fixed_steps = IF pass.how = "fixed" THEN @ + 1 ELSE @,
                 !.solve_raised = pass.how = "raised"]
    /\ caught' = IF pass.how = "raised" THEN caught + 1 ELSE caught
    /\ pc' = IF LoopLeft(pass) THEN "check" ELSE "newton"
    /\ UNCHANGED mainVars

\* one pass of solve_inverse_newton's loop
NewtonStep ==
    /\ pc = "newton"
    /\ AfterPass(NewtonPass(lut_data, size, sr.target, sr.x, FaultNow))
    /\ UNCHANGED <<args, env, gridVars, estVars, jobVars, outVars>>

\* `if error > 1e-4`, for error = max|apply_lut(result) - target|
AfterCheck(error) ==
    /\ sr' = [sr EXCEPT !.result = sr.x, !.error = error,
                        !.newton_x = sr.x, !.newton_error = error]
    /\ pc' = IF error > FallbackThreshold THEN "optimize" ELSE "store"

NodeCheck ==
    /\ pc = "check"
    /\ AfterCheck(ErrorAt(lut_data, size, sr.x, sr.target))
    /\ UNCHANGED <<args, env, mainVars, gridVars, estVars, jobVars, outVars, caught>>

\* a selection that always takes the fallback's result
BestOfTwoLast(result2, error2) ==
    sr' = [sr EXCEPT !.fallback = TRUE, !.result2 = result2, !.error2 = error2,
                     !.result = result2, !.error = error2]

\* `if error2 < error: result = result2; error = error2`
BestOfTwo(result2, error2) ==
    sr' = [sr EXCEPT !.fallback = TRUE, !.result2 = result2, !.error2 = error2,
                     !.result = IF error2 < sr.error THEN result2 ELSE @,
                     !.error = IF error2 < sr.error THEN error2 ELSE @]

\* error2 = max|apply_lut(result2) - target|
WithFallback(result2) ==
    BestOfTwo(result2, ErrorAt(lut_data, size, result2, sr.target))

\* the body of `if error > 1e-4`: the fallback, and the better of the two
NodeOptimize ==
    /\ pc = "optimize"
    /\ WithFallback(solve_inverse_optimization(size, sr.result, env.opt_mode))
    /\ pc' = "store"
    /\ UNCHANGED <<args, env, mainVars, gridVars, estVars, jobVars, outVars, caught>>

\* a loop that stops at the first node of high error
StoreNodeStopping(next) ==
    /\ pc = "store"
    /\ high_error_count' = IF sr.error > HighErrorThreshold
                           THEN high_error_count + 1 ELSE high_error_count
    /\ inverted_lut' = [inverted_lut EXCEPT ![node] = sr.result]
    /\ writes' = [writes EXCEPT ![node] = @ + 1]
    /\ node_error' = [node_error EXCEPT ![node] = sr.error]
    /\ processed' = processed + 1
    /\ node' = IF sr.error > HighErrorThreshold THEN NoNode ELSE next
    /\ pc' = IF node' = NoNode THEN "finish" ELSE "estimate"
    /\ UNCHANGED <<args, env, mainVars, gridVars, estVars, output_size, sr,
                   outVars, caught>>

\* `if error > 0.01: high_error_count += 1`, the store into inverted_lut and
\* `processed += 1`; the loop goes on with `next`, or ends
StoreNode(next) ==
    /\ pc = "store"
    /\ high_error_count' = IF sr.error > HighErrorThreshold
                           THEN high_error_count + 1 ELSE high_error_count
    /\ inverted_lut' = [inverted_lut EXCEPT ![node] = sr.result]
    /\ writes' = [writes EXCEPT ![node] = @ + 1]
    /\ node_error' = [node_error EXCEPT ![node] = sr.error]
    /\ processed' = processed + 1
    /\ node' = next
    /\ pc' = IF next = NoNode THEN "finish" ELSE "estimate"
    /\ UNCHANGED <<args, env, mainVars, gridVars, estVars, output_size, sr,
                   outVars, caught>>

NodeStore == StoreNode(NextNode(node, output_size))

NodeStoreIn ==
    StoreNode(IF processed + 1 < output_size * output_size * output_size
              THEN NodeAt(env.order, processed + 1, output_size)
              ELSE NoNode)

\* after the loop: the warning line, printed `if verbose` and
\* `if high_error_count > 0`, and `return inverted_lut`
InvertReturn ==
    /\ pc = "finish"
    /\ warned' = IF ~args.quiet /\ high_error_count > 0
                 THEN high_error_count ELSE warned
    /\ returned' = inverted_lut
    /\ pc' = "write"
    /\ UNCHANGED <<args, env, mainVars, gridVars, estVars, jobVars, sr,
                   output_file, trip, caught>>

----------------------------------------------------------------------------
(* The specification *)

Next ==
    \/ MainTest
    \/ MainUsage
    \/ MainMissingFile
    \/ MainParse
    \/ InvertBegin
    \/ NodeEstimate
    \/ NewtonStep
    \/ NodeCheck
    \/ NodeOptimize
    \/ NodeStore
    \/ InvertReturn
    \/ MainWrite
    \/ MainVerify
    \/ MainReturn

Spec == Init /\ [][Next]_vars

\* the conversions of OrderRuns, with the node loop in each of the Orders
InitOrder == InitWith(OrderRuns)

NextOrder ==
    \/ MainParse
    \/ InvertBeginIn
    \/ NodeEstimate
    \/ NewtonStep
    \/ NodeCheck
    \/ NodeOptimize
    \/ NodeStoreIn
    \/ InvertReturn
    \/ MainWrite
    \/ MainReturn

SpecOrder == InitOrder /\ [][NextOrder]_vars

\* the conversions of the identity grids
InitIdentity == InitWith(IdentityRuns)

NextIdentity ==
    \/ MainParse
    \/ InvertBegin
    \/ NodeEstimate
    \/ NewtonStep
    \/ NodeCheck
    \/ NodeStore
    \/ InvertReturn
    \/ MainWrite
    \/ MainReturn

SpecIdentity == InitIdentity /\ [][NextIdentity]_vars

----------------------------------------------------------------------------
(* write_cube_file followed by parse_cube_file, on grids of any values *)

\* the grids written here hold values in units of 1e-8, finer than the six
\* places of the file
FINE == 100000000

\* the k-th value of the grid numbered seed: values spread over [0, 1]
FileValue(seed, k) == (k * (1000003 + 977 * seed)) % (FINE + 1)

\* a grid of side N, a different value in every channel of every node
FileGrid(N, seed) ==
    [n \in Nodes(N) |->
        <<FileValue(seed, 3 * (n[1] + N * n[2] + N * N * n[3]) + 1),
          FileValue(seed, 3 * (n[1] + N * n[2] + N * N * n[3]) + 2),
          FileValue(seed, 3 * (n[1] + N * n[2] + N * N * n[3]) + 3)>>]

InitFile ==
    /\ args = Arguments(FALSE, TRUE, TRUE, TRUE, 1, "good", 0, FALSE, FALSE)
    /\ env = Environment("stay", NoFault, "rgb", TRUE)
    /\ pc = "file"
    /\ \E N \in 2 .. MaxSide : \E seed \in 1 .. MaxSeeds :
          lut_data = FileGrid(N, seed) /\ size = N
    /\ exit_code = -1
    /\ raised = "none"
    /\ reported = {}
    /\ pairs = <<>>
    /\ interp_ok = FALSE
    /\ output_size = 0
    /\ inverted_lut = <<>>
    /\ processed = 0
    /\ high_error_count = 0
    /\ node = NoNode
    /\ sr = NoRecord
    /\ warned = -1
    /\ returned = <<>>
    /\ output_file = <<>>
    /\ trip = NoTrip
    /\ writes = <<>>
    /\ node_error = <<>>
    /\ caught = 0

\* write_cube_file(path, lut_data)
FileWrite ==
    /\ pc = "file"
    /\ output_file' = write_cube_file(lut_data, size, FINE)
    /\ pc' = "written"
    /\ UNCHANGED <<args, env, mainVars, gridVars, estVars, jobVars, sr, warned,
                   returned, trip, caught>>

\* what parse_cube_file(path) of the written file returns, or that it raised
FileParsed(parsed) ==
    IF parsed.ok
    THEN /\ returned' = parsed.lut_data
         /\ output_size' = parsed.size
         /\ pc' = "parsed"
    ELSE /\ UNCHANGED <<returned, output_size>>
         /\ pc' = "unparsed"

FileParse ==
    /\ pc = "written"
    /\ FileParsed(parse_cube_text(output_file, FINE))
    /\ UNCHANGED <<args, env, mainVars, gridVars, estVars, inverted_lut, processed,
                   high_error_count, node, writes, node_error, sr, warned,
                   output_file, trip, caught>>

NextFile ==
    \/ FileWrite
    \/ FileParse

SpecFile == InitFile /\ [][NextFile]_vars

----------------------------------------------------------------------------
(* test_gamma_lut: the grid of output = input^2, inverted and tried on the
   round trip input -> gamma -> inverse *)

\* `size = 9`
gamma_size == 9

\* `error < 0.02`
TripBound == 200

\* (k / (size - 1)) ** 2 on the lattice
Square(v) == RoundDiv(v * v, ONE)

\* gamma_lut[r, g, b] = [(r/(size-1))**2, (g/(size-1))**2, (b/(size-1))**2]
gamma_lut(N) ==
    [n \in Nodes(N) |->
        <<Square(Axis(N, n[1])), Square(Axis(N, n[2])), Square(Axis(N, n[3]))>>]

\* test_inputs
test_inputs ==
    {<<0, 0, 0>>, <<1000, 1000, 1000>>, <<2500, 2500, 2500>>,
     <<5000, 5000, 5000>>, <<7500, 7500, 7500>>, <<ONE, ONE, ONE>>}

\* after_gamma = apply_gamma(inp); after_inv = apply_inv(after_gamma);
\* error = np.max(np.abs(inp - after_inv))
TripOf(inp, after_gamma, after_inv) ==
    [inp |-> inp, after_gamma |-> after_gamma, after_inv |-> after_inv,
     error |-> MaxAbs(VecSub(inp, after_inv))]

\* a trip that leaves out apply_gamma
RoundTripNoGamma(gamma, inverted, N, inp) ==
    TripOf(inp, inp, apply_lut(inverted, N, inp))

RoundTrip(gamma, inverted, N, inp) ==
    TripOf(inp, apply_lut(gamma, N, inp),
           apply_lut(inverted, N, apply_lut(gamma, N, inp)))

\* apply_inv at a point p reads the eight nodes at the corners of the cell of
\* p; the k-th of them (from 0) in the order of the r, g, b loops
CellNodeAt(N, p, k) ==
    <<CellOf(N, p[1]) + (k \div 4), CellOf(N, p[2]) + ((k \div 2) % 2),
      CellOf(N, p[3]) + (k % 2)>>

\* the point where the trip of the test input reads the inverse grid
TripPoint == apply_lut(lut_data, size, trip.inp)

\* test_gamma_lut with one of its test inputs: the grid is built in memory,
\* verbose, and inverted at its own size
InitGamma ==
    /\ args = Arguments(TRUE, FALSE, FALSE, FALSE, 1, "good", 0, FALSE, FALSE)
    /\ env = Environment("stay", NoFault, "rgb", TRUE)
    /\ pc = "invert"
    /\ lut_data = gamma_lut(gamma_size)
    /\ size = gamma_size
    /\ \E inp \in test_inputs : trip = [NoTrip EXCEPT !.inp = inp]
    /\ exit_code = -1
    /\ raised = "none"
    /\ reported = {}
    /\ pairs = <<>>
    /\ interp_ok = FALSE
    /\ output_size = 0
    /\ inverted_lut = <<>>
    /\ processed = 0
    /\ high_error_count = 0
    /\ node = NoNode
    /\ sr = NoRecord
    /\ warned = -1
    /\ returned = <<>>
    /\ output_file = <<>>
    /\ writes = <<>>
    /\ node_error = <<>>
    /\ caught = 0

\* invert_3d_lut(gamma_lut, size): a node's entry depends on the forward grid
\* and on the node alone (C2_OrderIndependent), and the trip reads the entries
\* of one cell, so the loop of this specification visits the nodes of that
\* cell and leaves the other entries at their np.zeros; on this grid no node
\* is left with an error above 1e-4, so the optimizer is not called
GammaInvertBegin == StartJob(CellNodeAt(size, TripPoint, 0))

GammaNodeStore ==
    StoreNode(IF processed + 1 < 8
              THEN CellNodeAt(size, TripPoint, processed + 1)
              ELSE NoNode)

\* apply_inv = create_lut_interpolator(inverted, size) and the trip of the
\* test input
GammaTrip ==
    /\ pc = "write"
    /\ trip' = RoundTrip(lut_data, returned, size, trip.inp)
    /\ pc' = "tested"
    /\ UNCHANGED <<args, env, mainVars, gridVars, estVars, jobVars, sr, warned,
                   returned, output_file, caught>>

NextGamma ==
    \/ GammaInvertBegin
    \/ NodeEstimate
    \/ NewtonStep
    \/ NodeCheck
    \/ GammaNodeStore
    \/ InvertReturn
    \/ GammaTrip

SpecGamma == InitGamma /\ [][NextGamma]_vars

----------------------------------------------------------------------------
(* Properties *)

\* the node loop of invert_3d_lut is running
InLoop == pc \in {"estimate", "newton", "check", "optimize", "store"}

\* the node loop of invert_3d_lut has run to its end
AfterLoop ==
    \/ pc \in {"finish", "write", "verify", "done"}
    \/ pc = "exit" /\ exit_code = 0 /\ ~args.test

\* no node has been written twice, a node not yet written still holds the
\* zeros of the allocation, and after the loop every node has been written
EachNodeOnce ==
    /\ \A n \in DOMAIN writes : writes[n] <= 1
    /\ \A n \in DOMAIN writes : writes[n] = 0 => inverted_lut[n] = <<0, 0, 0>>
    /\ AfterLoop => /\ DOMAIN inverted_lut = Nodes(output_size)
                    /\ \A n \in Nodes(output_size) : writes[n] = 1

\* the grid is allocated zero-filled, a store writes its own node and leaves
\* every other node as it was, and no other step of the loop writes the grid
OneNodePerWrite ==
    /\ pc = "invert" =>
          /\ DOMAIN inverted_lut' = Nodes(output_size')
          /\ \A n \in Nodes(output_size') : inverted_lut'[n] = <<0, 0, 0>>
    /\ pc = "store" =>
          /\ inverted_lut'[node] = sr.result
          /\ writes'[node] = writes[node] + 1
          /\ \A n \in Nodes(output_size) \ {node} :
                inverted_lut'[n] = inverted_lut[n] /\ writes'[n] = writes[n]
    /\ pc \in {"estimate", "newton", "check", "optimize", "finish"} =>
          inverted_lut' = inverted_lut

\* C1: in invert_3d_lut the inverse grid starts zero-filled and each of the
\* M^3 nodes is written exactly once: none twice, none left unwritten when
\* the function returns, and a node's write modifies no other node.
C1_WrittenExactlyOnce == []EachNodeOnce /\ [][OneNodePerWrite]_vars

\* a job of 27 nodes or more has returned a grid that is not all zeros
C1_Witness ==
    /\ AfterLoop
    /\ output_size >= 3
    /\ \E n \in Nodes(output_size) : inverted_lut[n] # <<0, 0, 0>>

\* the stored values and the counter are those of the per-node solutions sols
MatchesSolutions(sols) ==
    /\ \A n \in Nodes(output_size) : inverted_lut[n] = sols[n].result
    /\ high_error_count =
          Cardinality({n \in Nodes(output_size) : sols[n].error > HighErrorThreshold})

\* what the body of the node loop yields for node n, from the forward grid,
\* the estimator and n alone
SolutionOf(n) ==
    SolveTarget(lut_data, size, pairs, interp_ok, TargetOf(output_size, n),
                env.opt_mode, IF env.fault.node = n THEN env.fault.pass ELSE 0)

\* in whatever order the loop ran, the grid and the counter it ends with are
\* those of the per-node solutions
OrderFree ==
    pc = "finish" => MatchesSolutions([n \in Nodes(output_size) |-> SolutionOf(n)])

\* no step of the node loop changes the forward grid or the estimator
SolveReadsOnly ==
    InLoop => /\ lut_data' = lut_data
              /\ size' = size
              /\ pairs' = pairs
              /\ interp_ok' = interp_ok

ErrorOf(x) == ErrorAt(lut_data, size, x, sr.target)

\* C3: for every node the fallback is invoked if and only if the error of the
\* Newton result exceeds 1e-4, and the result kept for the node is whichever
\* of the Newton result and the fallback result has the lower error: its
\* error is never above the Newton result's, and the Newton result is kept
\* unchanged when the fallback is not invoked or does not strictly improve.
C3_BestOfTwo ==
    /\ pc = "store" =>
          /\ sr.newton_error = ErrorOf(sr.newton_x)
          /\ sr.fallback <=> sr.newton_error > FallbackThreshold
          /\ sr.error = ErrorOf(sr.result)
          /\ sr.error <= sr.newton_error
          /\ sr.fallback =>
                /\ sr.error2 = ErrorOf(sr.result2)
                /\ sr.error = Min(sr.newton_error, sr.error2)
                /\ sr.result = IF sr.error2 < sr.newton_error
                               THEN sr.result2 ELSE sr.newton_x
          /\ ~sr.fallback => sr.result = sr.newton_x
    /\ \A n \in DOMAIN writes :
          writes[n] = 1 =>
             node_error[n] = ErrorAt(lut_data, size, inverted_lut[n],
                                     TargetOf(output_size, n))

\* a node whose fallback strictly improved on its Newton result is about to
\* be stored
C3_Witness ==
    /\ pc = "store"
    /\ sr.fallback
    /\ sr.error2 < sr.newton_error
    /\ sr.result = sr.result2

\* C4 as stated: solve_inverse_newton returns the best x found: the error of
\* the x it returns is no larger than that of any iterate it visited, the
\* initial guess included (already where no exception ends the loop early).
C4_ReturnsBest ==
    (pc = "check" /\ ~sr.solve_raised) => ErrorOf(sr.x) <= sr.min_error

\* C4, amended: solve_inverse_newton never raises for non-convergence and
\* returns the last iterate; a step accepted by the line search strictly
\* lowers the error and only the fixed 0.1 step can raise it, so the x
\* returned is the best one visited when no pass took the fixed step.
C4_LastIterate ==
    /\ pc \in {"newton", "check"} =>
          /\ sr.last_how = "accepted" => ErrorOf(sr.x) < sr.prev_error
          /\ sr.last_how \in {"converged", "raised"} => ErrorOf(sr.x) = sr.prev_error
          /\ ErrorOf(sr.x) > sr.prev_error => sr.last_how = "fixed"
    /\ pc = "check" =>
          /\ sr.passes <= max_iter
          /\ raised = "none" /\ exit_code = -1
          /\ sr.fixed_steps = 0 => ErrorOf(sr.x) <= sr.min_error

\* a loop of two or more passes, none of them a fixed step, has returned a
\* point better than its initial guess
C4_Witness ==
    /\ pc = "check"
    /\ sr.passes >= 2
    /\ sr.fixed_steps = 0
    /\ ErrorOf(sr.x) < ErrorOf(sr.initial)

\* the nodes of the finished grid whose achieved error exceeds 0.01
HighErrorNodes ==
    {n \in Nodes(output_size) :
        ErrorAt(lut_data, size, inverted_lut[n], TargetOf(output_size, n))
            > HighErrorThreshold}

\* C5: when invert_3d_lut finishes, the high-error counter is the number of
\* nodes whose final error (after the best-of-two selection) is strictly
\* above 0.01, and a node above the threshold never stops the job: the
\* remaining nodes are still solved and written.
C5_HighErrorCount ==
    /\ InLoop =>
          high_error_count =
             Cardinality({n \in Nodes(output_size) :
                             writes[n] = 1 /\ node_error[n] > HighErrorThreshold})
    /\ high_error_count > 0 => raised = "none" /\ exit_code \in {-1, 0}
    /\ pc = "finish" =>
          /\ high_error_count = Cardinality(HighErrorNodes)
          /\ processed = output_size * output_size * output_size
          /\ \A n \in Nodes(output_size) : writes[n] = 1

\* a job whose first node ended above the threshold has finished, with
\* every node written and some of them, not all, counted
C5_Witness ==
    /\ pc = "finish"
    /\ node_error[<<0, 0, 0>>] > HighErrorThreshold
    /\ processed = output_size * output_size * output_size
    /\ high_error_count > 0
    /\ high_error_count < processed

\* C6 as stated: whenever a node ends with error above 0.01 the count of
\* such nodes is reported by invert_3d_lut, in every invocation, --quiet
\* included; and the counter is zero when the forward grid is the identity.
C6_CountReported ==
    /\ (pc \in {"write", "verify", "done"} /\ high_error_count > 0)
          => warned = high_error_count
    /\ (AfterLoop /\ IdentityCurve(CurveList[args.curve])) => high_error_count = 0

InputUnusable ==
    \/ ~args.exists
    \/ ~parse_cube_file(FileLines(CurveList[args.curve], args.kind)).ok

\* C8 as stated, for the runs given both paths: main exits non-zero if the
\* input file is missing or cannot be parsed, and zero in every other run,
\* whatever --size, --verify and --quiet are.
C8_ExitStatus ==
    (pc = "exit" /\ ~args.test /\ args.has_input /\ args.has_output)
        => (exit_code # 0 <=> InputUnusable)

\* the run has got to its input file
AtInput == ~args.test /\ args.has_input /\ args.has_output

\* the run has ended on an input error: reported, invert_3d_lut never called
\* and nothing written
FatalAtInput ==
    /\ pc \in {"main", "exit"}
    /\ output_size = 0 /\ processed = 0
    /\ output_file = <<>>
    /\ pc = "exit" => exit_code = 1 /\ reported # {} /\ raised = "none"

\* C9 as stated: every input error, a missing file, malformed grid text or
\* a declared size that does not match the number of records, is fatal and
\* reported: invert_3d_lut is never called and the output is never written.
C9_EveryInputErrorFatal ==
    (AtInput /\ (~args.exists \/ args.kind \notin {"good", "nosize"}))
        => FatalAtInput

\* C9, amended: a missing file, a TITLE, LUT_3D_SIZE or DOMAIN line that
\* cannot be parsed, or a number of records that does not fill the declared
\* cube is fatal and reported, invert_3d_lut is never called and the output
\* is never written; a data line that is not three floats is skipped and does
\* not fail the run; and the inversion only starts after a successful parse.
C9_FatalInputErrors ==
    /\ (AtInput /\ (\/ ~args.exists
                    \/ args.kind \in {"short", "wrongsize", "badsize",
                                      "badtitle", "baddomain"}))
          => FatalAtInput
    /\ (InLoop \/ AfterLoop \/ pc = "invert" \/ output_size # 0)
          => /\ AtInput
             /\ ~InputUnusable
             /\ size * size * size = Len(SamplePairs(lut_data, size))
             /\ DOMAIN lut_data = Nodes(size)

\* a run has ended on a file whose declared size does not match its records
C9_Witness ==
    /\ pc = "exit"
    /\ args.exists
    /\ args.kind = "wrongsize"
    /\ reported = {"unparsable"}
    /\ output_file = <<>>

\* every component of x lies in [0, 1]
InUnitCube(x) == \A c \in Channels : 0 <= x[c] /\ x[c] <= ONE

\* C10: every coordinate the core produces stays in [0,1]: the estimator's
\* result, every Newton iterate (also after the fixed 0.1 step), the result
\* of the fallback, and every component stored in the inverse grid.
C10_InUnitCube ==
    /\ InUnitCube(sr.initial)
    /\ InUnitCube(sr.x)
    /\ InUnitCube(sr.newton_x)
    /\ InUnitCube(sr.result2)
    /\ InUnitCube(sr.result)
    /\ \A n \in DOMAIN inverted_lut : InUnitCube(inverted_lut[n])

\* a node whose Newton loop took fixed steps has had its fallback return a
\* point that the clip holds on the boundary of the cube
C10_Witness ==
    /\ pc = "store"
    /\ sr.fixed_steps > 0
    /\ sr.fallback
    /\ env.opt_mode = "drift"
    /\ \E c \in Channels : sr.result2[c] = 0

\* the line of the written file that holds the record of node n
RecordLine(n) == 5 + 1 + n[1] + size * n[2] + size * size * n[3]

\* C11: writing and parsing are inverse on the grid layout: write_cube_file
\* emits the records with R varying fastest, then G, then B, and
\* parse_cube_file of that text returns a grid of the same side in which
\* node (r,g,b) holds the record written for node (r,g,b); the values are
\* equal up to the formatting to six decimals.
C11_WriteParseRoundTrip ==
    /\ pc # "unparsed"
    /\ pc \in {"written", "parsed"} =>
          /\ Len(output_file) = 5 + size * size * size
          /\ output_file[2] = Line("size", TRUE, size, <<0, 0, 0>>)
          /\ \A n \in Nodes(size) :
                output_file[RecordLine(n)] = FormatRecord(lut_data[n], FINE)
    /\ pc = "parsed" =>
          /\ output_size = size
          /\ DOMAIN returned = Nodes(size)
          /\ \A n \in Nodes(size) :
                /\ returned[n] = ParseRecord(output_file[RecordLine(n)].rgb, FINE)
                /\ \A c \in Channels :
                      2 * Abs(returned[n][c] - lut_data[n][c]) <= FINE \div MICRO

\* a grid of 27 nodes or more has come back from its file, with a value
\* that the six decimals rounded
C11_Witness ==
    /\ pc = "parsed"
    /\ size >= 3
    /\ \E n \in Nodes(size) : \E c \in Channels :
          /\ returned[n][c] # lut_data[n][c]
          /\ returned[n][c] # returned[<<n[3], n[2], n[1]>>][c]

\* the largest difference between the inverse grid and the forward grid
\* over the nodes they share is below bound
GridsWithin(bound) ==
    \A n \in Nodes(size) : \A c \in Channels :
        Abs(inverted_lut[n][c] - lut_data[n][c]) <= bound

\* C12: identity law: inverting the grid of the identity mapping,
\* value(i,j,k) = (i,j,k)/(N-1), at output size N gives the same grid back
\* within 1e-4 at every node.
C12_IdentityLaw ==
    (AfterLoop /\ IdentityCurve(CurveList[args.curve]) /\ output_size = size)
        => /\ DOMAIN inverted_lut = DOMAIN lut_data
           /\ GridsWithin(FallbackThreshold)

\* the inverse of an identity grid of 64 nodes or more has been computed
\* with the nearest-sample estimator, and it has nodes inside the cube
C12_Witness ==
    /\ AfterLoop
    /\ IdentityCurve(CurveList[args.curve])
    /\ output_size = size
    /\ size >= 4
    /\ ~interp_ok
    /\ inverted_lut[<<1, 2, 1>>] = <<Axis(size, 1), Axis(size, 2), Axis(size, 1)>>

\* C13: on the grid of output = input^2 sampled at size 9 and inverted at
\* size 9, the test input (0.5, 0.5, 0.5) taken through the forward evaluator
\* and then through the trilinear evaluator of the inverse grid comes back
\* within 0.02 of itself in every channel
C13_GammaRoundTrip ==
    (pc = "tested" /\ trip.inp = <<5000, 5000, 5000>>) => trip.error < TripBound

\* the trip of (0.5, 0.5, 0.5) is made: gamma takes it to (0.25, 0.25, 0.25),
\* all eight nodes of the cell read there are solved, and it comes back
C13_Witness ==
    /\ pc = "tested"
    /\ size = 9 /\ output_size = 9
    /\ trip.inp = <<5000, 5000, 5000>>
    /\ trip.after_gamma = <<2500, 2500, 2500>>
    /\ processed = 8
    /\ \A k \in 0 .. 7 : writes[CellNodeAt(size, trip.after_gamma, k)] = 1
    /\ trip.error >= 0
    /\ trip.error < TripBound

\* the k-th step size of the line search (from 0) improves on `error`
Improves(x, delta, error, k) ==
    ErrorAt(lut_data, size, StepFrom(x, delta, Pow2(k)), sr.target) < error

\* what a pass with residual error `error` and Newton step `delta` does to
\* the iterate x: the first of the step sizes 1, 1/2, ..., 1/2^9 that
\* improves is taken, and the fixed step only when none of them improves
SearchedFrom(x, delta, error) ==
    \/ \E k \in 0 .. LineSearchTries - 1 :
          /\ Improves(x, delta, error, k)
          /\ \A j \in 0 .. k - 1 : ~Improves(x, delta, error, j)
          /\ sr'.x = StepFrom(x, delta, Pow2(k))
          /\ sr'.last_how = "accepted"
    \/ /\ \A k \in 0 .. LineSearchTries - 1 : ~Improves(x, delta, error, k)
       /\ sr'.x = StepFrom(x, delta, FixedStepDen)
       /\ sr'.last_how = "fixed"

\* a pass of the loop from the iterate x with residual `residual`
PassTaken(x, residual) ==
    IF MaxAbs(residual) < tol \/ FaultNow
    THEN sr'.x = x /\ sr'.passes = sr.passes /\ pc' = "check"
    ELSE /\ SearchedFrom(x, SolveDelta(Jacobian(lut_data, size, x), residual),
                         MaxAbs(residual))
         /\ sr'.passes = sr.passes + 1
         /\ pc' = IF sr'.passes = max_iter THEN "check" ELSE "newton"

\* C14: solve_inverse_newton ends within 30 passes, and at once when the
\* max-abs residual is below tol; a pass tries the step sizes 1, 1/2, 1/4,
\* ... (ten of them), takes the first that strictly lowers the max-abs
\* residual, and takes the fixed 0.1 step only if none of them does
C14_BoundedLineSearch ==
    /\ [](sr.passes <= max_iter /\ (pc = "newton" => sr.passes < max_iter))
    /\ [][(pc = "newton" /\ pc' # "exit")
             => PassTaken(sr.x, VecSub(apply_lut(lut_data, size, sr.x), sr.target))]_vars

\* a solve that used all 30 passes, some with an accepted step size and some
\* with the fixed step, and went on to the error check
C14_Witness ==
    /\ pc = "check"
    /\ sr.passes = max_iter
    /\ sr.fixed_steps > 0
    /\ sr.fixed_steps < sr.passes
    /\ ~sr.solve_raised

\* a lattice coordinate in units of 1e-8
Fine(v) == v * (UnitFine \div ONE)

\* coordinates of [0,1] in units of 1e-8: those within EdgeBand * eps of
\* either end, and the lattice points
FineCoordinates ==
    (0 .. EdgeBand * eps) \cup (UnitFine - EdgeBand * eps .. UnitFine)
        \cup {Fine(v) : v \in {1, 2, ONE \div 2, ONE - 2, ONE - 1}}

\* dx of a coordinate of [0,1]: at least eps, and eps at the two ends
DxPositive(v) ==
    /\ dx(v) >= eps
    /\ dx(v) <= 2 * eps
    /\ v \in {0, UnitFine} => dx(v) = eps
    /\ (v >= eps /\ v <= UnitFine - eps) => dx(v) = 2 * eps

\* C15: for every iterate x of the Newton loop, a point of [0,1]^3, the
\* denominator dx = min(1, x_i + eps) - max(0, x_i - eps) of the finite
\* difference is at least eps > 0 in every coordinate, so no column of the
\* Jacobian is left zero by `if dx > 0`; on a face of the cube the
\* difference is one-sided and dx = eps, inside it is 2 * eps
C15_DxPositive ==
    /\ \A v \in FineCoordinates : DxPositive(v)
    /\ pc = "newton" =>
          \A i \in Channels :
              /\ sr.x[i] \in 0 .. ONE
              /\ DxPositive(Fine(sr.x[i]))
              /\ dx(Fine(sr.x[i])) = (EpsUp(sr.x[i]) + EpsDown(sr.x[i])) * eps
              /\ EpsUp(sr.x[i]) + EpsDown(sr.x[i]) > 0
              /\ (sr.x[i] = 0 => EpsDown(sr.x[i]) = 0 /\ EpsUp(sr.x[i]) = 1)
              /\ (sr.x[i] = ONE => EpsUp(sr.x[i]) = 0 /\ EpsDown(sr.x[i]) = 1)

\* an iterate reached by a clamped update that lies on a face of the cube in
\* one coordinate and inside it in another, with a pass still to run
C15_Witness ==
    /\ pc = "newton"
    /\ sr.passes > 0
    /\ \E i \in Channels : sr.x[i] \in {0, ONE} /\ dx(Fine(sr.x[i])) = eps
    /\ \E j \in Channels : sr.x[j] \notin {0, ONE} /\ dx(Fine(sr.x[j])) = 2 * eps

============================================================================
